---- MODULE Spec2Model ----
(***************************************************************************)
(* Meeting-room booking system (src/app.py): the bookings and              *)
(* bookings_history tables, the request handlers that write them (book,    *)
(* admin_add, admin_edit, admin_delete, admin_delete_history), the         *)
(* archival sweep and the availability API.                                *)
(*                                                                         *)
(* A Python str is modelled as a tuple of one-character strings, so that   *)
(* the code's lexicographic comparisons of "HH:MM" strings, its parsing    *)
(* (t2min, strptime) and its formatting (min2t, strftime) are computed     *)
(* character by character.  None is the tuple NONE.                        *)
(***************************************************************************)
EXTENDS Integers, Sequences, FiniteSets, TLC

(***************************************************************************)
(* Python strings                                                          *)
(***************************************************************************)
NONE == <<"None">>

DigitChars == <<"0", "1", "2", "3", "4", "5", "6", "7", "8", "9">>

IsDigit(c) == \E i \in 1..10 : DigitChars[i] = c

DigitVal(c) == (CHOOSE i \in 1..10 : DigitChars[i] = c) - 1

\* Code point of a character of the alphabet used by the inputs.
Ord(c) ==
  IF IsDigit(c) THEN 48 + DigitVal(c)
  ELSE IF c = "-" THEN 45
  ELSE IF c = ":" THEN 58
  ELSE 120  \* "x"

\* Python's str < str: lexicographic by code point, a proper prefix is smaller.
RECURSIVE StrLt(_, _)
StrLt(a, b) ==
  IF b = <<>> THEN FALSE
  ELSE IF a = <<>> THEN TRUE
  ELSE IF Ord(a[1]) < Ord(b[1]) THEN TRUE
  ELSE IF Ord(a[1]) > Ord(b[1]) THEN FALSE
  ELSE StrLt(Tail(a), Tail(b))

StrLe(a, b) == a = b \/ StrLt(a, b)

\* Python truthiness of a form value: None and "" are falsy.
Falsy(v) == v = NONE \/ v = <<>>

\* str.split(sep): the list of the pieces between the separators.
RECURSIVE SplitOn(_, _)
SplitOn(s, sep) ==
  IF \A i \in 1..Len(s) : s[i] # sep THEN <<s>>
  ELSE LET k == CHOOSE i \in 1..Len(s) :
                  s[i] = sep /\ \A j \in 1..(i - 1) : s[j] # sep
       IN  <<SubSeq(s, 1, k - 1)>> \o SplitOn(SubSeq(s, k + 1, Len(s)), sep)

AllDigits(s) == Len(s) > 0 /\ \A i \in 1..Len(s) : IsDigit(s[i])

\* int(s) for a string of decimal digits.
RECURSIVE IntOf(_)
IntOf(s) ==
  IF Len(s) = 0 THEN 0
  ELSE 10 * IntOf(SubSeq(s, 1, Len(s) - 1)) + DigitVal(s[Len(s)])

\* int(s) raises ValueError unless s is a decimal literal.
IntRaises(s) == ~AllDigits(s)

\* f"{n:02d}" for n >= 0.
RECURSIVE Decimal(_)
Decimal(n) ==
  IF n < 10 THEN <<DigitChars[n + 1]>>
  ELSE Decimal(n \div 10) \o <<DigitChars[(n % 10) + 1]>>

Pad2(n) == IF n < 10 THEN <<"0">> \o Decimal(n) ELSE Decimal(n)

(***************************************************************************)
(* Time helpers                                                            *)
(***************************************************************************)
STEP_MINUTES == 30

\* "09:00" and "17:00", the literals of generate_time_options and of
\* api_available_times' day_start, day_end.
DAY_START == <<"0", "9", ":", "0", "0">>
DAY_END == <<"1", "7", ":", "0", "0">>

\* t2min raises ValueError unless the string is two decimal literals around ":".
t2minRaises(tstr) ==
  LET parts == SplitOn(tstr, ":")
  IN  Len(parts) # 2 \/ IntRaises(parts[1]) \/ IntRaises(parts[2])

t2min(tstr) ==
  LET parts == SplitOn(tstr, ":")
  IN  IntOf(parts[1]) * 60 + IntOf(parts[2])

min2t(mn) == Pad2(mn \div 60) \o <<":">> \o Pad2(mn % 60)

\* range(lo, hi, step) as a sequence.
RECURSIVE Range(_, _, _)
Range(lo, hi, step) ==
  IF lo >= hi THEN <<>> ELSE <<lo>> \o Range(lo + step, hi, step)

SeqMap(Op(_), s) == [i \in 1..Len(s) |-> Op(s[i])]

SeqToSet(s) == {s[i] : i \in 1..Len(s)}

\* strptime(t, "%H:%M"): hour and minute of one or two digits, 0..23 and 0..59.
TimeParses(t) ==
  LET parts == SplitOn(t, ":")
  IN  /\ Len(parts) = 2
      /\ AllDigits(parts[1]) /\ Len(parts[1]) <= 2 /\ IntOf(parts[1]) <= 23
      /\ AllDigits(parts[2]) /\ Len(parts[2]) <= 2 /\ IntOf(parts[2]) <= 59

\* strftime("%H:%M") of the datetime strptime gave.
TimeMinutes(t) ==
  LET parts == SplitOn(t, ":") IN IntOf(parts[1]) * 60 + IntOf(parts[2])

generate_time_options ==
  LET start == TimeMinutes(DAY_START)
      end == TimeMinutes(DAY_END)
  IN  SeqMap(min2t, Range(start, end + 1, STEP_MINUTES))

ALL_TIMES == generate_time_options

ALLOWED_SET == SeqToSet(ALL_TIMES)

generate_halfhour_slots(start, end) ==
  SeqMap(min2t, Range(t2min(start), t2min(end), STEP_MINUTES))

\* A closed-interval variant of overlaps, under which touching intervals
\* conflict: the variant the half-open test of the code is compared with.
overlaps_closed(a_start, a_end, b_start, b_end) ==
  a_start <= b_end /\ b_start <= a_end

overlaps(a_start, a_end, b_start, b_end) == a_start < b_end /\ b_start < a_end

\* load_booked_intervals: the (start, end) minutes of the rows of a room and
\* date.  It raises ValueError when t2min cannot parse a stored time.
load_booked_raises(tbl, room, date_str) ==
  \E r \in tbl : /\ r.room = room /\ r.date = date_str
                 /\ (t2minRaises(r.start_time) \/ t2minRaises(r.end_time))

load_booked_intervals(tbl, room, date_str) ==
  {<<t2min(r.start_time), t2min(r.end_time)>> :
     r \in {x \in tbl : x.room = room /\ x.date = date_str}}

(***************************************************************************)
(* Dates and instants: strptime(f"{date} {time}", "%Y-%m-%d %H:%M")        *)
(***************************************************************************)
IsLeap(y) == (y % 4 = 0 /\ y % 100 # 0) \/ y % 400 = 0

DaysIn(y, m) ==
  IF m = 2 THEN (IF IsLeap(y) THEN 29 ELSE 28)
  ELSE IF m \in {4, 6, 9, 11} THEN 30 ELSE 31

DateParses(d) ==
  LET parts == SplitOn(d, "-")
  IN  /\ Len(parts) = 3
      /\ AllDigits(parts[1]) /\ Len(parts[1]) = 4 /\ IntOf(parts[1]) >= 1
      /\ AllDigits(parts[2]) /\ Len(parts[2]) <= 2
      /\ IntOf(parts[2]) \in 1..12
      /\ AllDigits(parts[3]) /\ Len(parts[3]) <= 2
      /\ IntOf(parts[3]) \in 1..DaysIn(IntOf(parts[1]), IntOf(parts[2]))

combine_raises(date_str, time_str) ==
  ~DateParses(date_str) \/ ~TimeParses(time_str)

\* A datetime is <<year, month, day, hour, minute>>.
combine_datetime(date_str, time_str) ==
  LET d == SplitOn(date_str, "-")
      t == SplitOn(time_str, ":")
  IN  <<IntOf(d[1]), IntOf(d[2]), IntOf(d[3]), IntOf(t[1]), IntOf(t[2])>>

\* datetime < datetime.
RECURSIVE DtLt(_, _)
DtLt(a, b) ==
  IF a = <<>> THEN FALSE
  ELSE IF a[1] < b[1] THEN TRUE
  ELSE IF a[1] > b[1] THEN FALSE
  ELSE DtLt(Tail(a), Tail(b))

(***************************************************************************)
(* Bounds and inputs                                                       *)
(***************************************************************************)
\* Last value the bookings.id serial hands out.
MaxId == 2

\* Number of half-hour ticks the wall clock makes.
MaxTick == 2

\* The wall clock starts at 2025-01-10 09:30 and ticks by half hours.
NowAt(c) ==
  LET mn == 9 * 60 + 30 + 30 * c
  IN  <<2025, 1, 10, mn \div 60, mn % 60>>

ANN == <<"a", "n", "n">>
ROOM_A == <<"R", "o", "o", "m", " ", "A">>
TODAY == <<"2", "0", "2", "5", "-", "0", "1", "-", "1", "0">>
\* A date that is not on the calendar: strptime raises ValueError.
BAD_DATE == <<"2", "0", "2", "5", "-", "0", "2", "-", "3", "0">>
T0900 == <<"0", "9", ":", "0", "0">>
T0930 == <<"0", "9", ":", "3", "0">>
T1000 == <<"1", "0", ":", "0", "0">>
T900 == <<"9", ":", "0", "0">>
T930 == <<"9", ":", "3", "0">>

UserInputs == {ANN}
RoomInputs == {NONE, ROOM_A}
DateInputs == {TODAY, BAD_DATE}
TimeInputs == {T0900, T0930, T1000, T900, T930}
PeopleInputs == {<<>>, <<"x">>}

\* request.form of book, admin_add and admin_edit.
Forms ==
  [user_name : UserInputs, room : RoomInputs, date : DateInputs,
   start_time : TimeInputs \cup {NONE}, end_time : TimeInputs \cup {NONE},
   people : PeopleInputs]

Ids == 1..MaxId

(***************************************************************************)
(* Flash messages and responses                                            *)
(***************************************************************************)
FLASH_REQUIRED == "Please fill in all required fields."
FLASH_GRID == "Times must be in 30-minute increments between 09:00 and 17:00."
FLASH_END == "End time must be later than start time."
FLASH_OVERLAP == "That time slot overlaps with an existing booking."
FLASH_CREATED == "Booking created successfully!"
FLASH_ADMIN_OVERLAP == "That time slot overlaps."
FLASH_ADDED == "Booking added successfully."
FLASH_NOT_FOUND == "Booking not found."
FLASH_UPDATED == "Booking updated."
FLASH_DELETED == "Booking deleted."
\* An uncaught exception: the transaction is never committed.
HTTP_500 == "500 Internal Server Error"
\* The checks passed; the handler goes on to its write.
PASS == "pass"

(***************************************************************************)
(* State                                                                   *)
(***************************************************************************)
VARIABLES
  bookings,  \* the rows of table bookings
  history,   \* the rows of table bookings_history
  next_id,   \* next value of the bookings.id serial
  clock,     \* the wall clock, in ticks
  req,       \* per connection: the request being handled
  probe,     \* the request and response under observation, or NONE
  rooms,     \* the rows of table rooms
  next_room_id,  \* next value of the rooms.id serial
  session    \* per browser: the keys and values of its Flask session

vars ==
  <<bookings, history, next_id, clock, req, probe, rooms, next_room_id,
    session>>

stores == <<bookings, history, next_id>>

room_stores == <<rooms, next_room_id>>

\* The browsers that hold a session.
Clients == {1, 2}

\* A session after session.clear(), and one after session["is_admin"] = True.
NoSession == {}
AdminSession == {<<"is_admin", TRUE>>}

\* The row INSERT INTO bookings writes; people is int(people) or NULL.
NewRow(id, f) ==
  [id |-> id, user_name |-> f.user_name, room |-> f.room, date |-> f.date,
   start_time |-> f.start_time, end_time |-> f.end_time,
   people |-> IF Falsy(f.people) THEN NONE ELSE <<IntOf(f.people)>>]

\* int(people) if people else None raises ValueError on a non-number.
PeopleRaises(f) == ~Falsy(f.people) /\ IntRaises(f.people)

\* SELECT start_time, end_time FROM bookings WHERE date = %s AND room = %s.
RowsFor(tbl, date, room) == {r \in tbl : r.date = date /\ r.room = room}

\* A variant of the inline test with <= in place of <, under which touching
\* intervals conflict.
RowConflictsClosed(start_time, end_time, r) ==
  StrLe(start_time, r.end_time) /\ StrLe(r.start_time, end_time)

\* The inline conflict test of book, admin_add and admin_edit, on strings.
RowConflicts(start_time, end_time, r) ==
  StrLt(start_time, r.end_time) /\ StrLt(r.start_time, end_time)

AnyConflict(f, rows) ==
  \E r \in rows : RowConflicts(f.start_time, f.end_time, r)

MissingField(f) ==
  \/ Falsy(f.user_name) \/ Falsy(f.room) \/ Falsy(f.date)
  \/ Falsy(f.start_time) \/ Falsy(f.end_time)

OffGrid(f) == f.start_time \notin ALLOWED_SET \/ f.end_time \notin ALLOWED_SET

EndNotAfterStart(f) == StrLe(f.end_time, f.start_time)

(***************************************************************************)
(* book                                                                    *)
(***************************************************************************)
\* A variant of book's checks with the end-after-start check ahead of the
\* grid check: the order the code does not use.
BookValidateEndFirst(f, tbl) ==
  IF MissingField(f) THEN FLASH_REQUIRED
  ELSE IF EndNotAfterStart(f) THEN FLASH_END
  ELSE IF OffGrid(f) THEN FLASH_GRID
  ELSE IF AnyConflict(f, RowsFor(tbl, f.date, f.room)) THEN FLASH_OVERLAP
  ELSE PASS

\* The checks of book up to the INSERT, against the rows its SELECT returns.
BookValidate(f, tbl) ==
  IF MissingField(f) THEN FLASH_REQUIRED
  ELSE IF OffGrid(f) THEN FLASH_GRID
  ELSE IF EndNotAfterStart(f) THEN FLASH_END
  ELSE IF AnyConflict(f, RowsFor(tbl, f.date, f.room)) THEN FLASH_OVERLAP
  ELSE PASS

\* A variant of the INSERT for a table that refuses a row overlapping a row
\* of its room and date, as an exclusion constraint would: the bookings table
\* of init_db has no such constraint.
InsertBookingExcluding(f) ==
  IF AnyConflict(f, RowsFor(bookings, f.date, f.room))
  THEN UNCHANGED stores
  ELSE /\ next_id <= MaxId
       /\ bookings' = bookings \cup {NewRow(next_id, f)}
       /\ next_id' = next_id + 1
       /\ UNCHANGED history

\* What the INSERT and commit of book and admin_add do to the stores.
InsertBooking(f) ==
  /\ next_id <= MaxId
  /\ bookings' = bookings \cup {NewRow(next_id, f)}
  /\ next_id' = next_id + 1
  /\ UNCHANGED history

BookResponse(f, tbl) ==
  LET v == BookValidate(f, tbl)
  IN  IF v # PASS THEN v
      ELSE IF PeopleRaises(f) THEN HTTP_500
      ELSE FLASH_CREATED

\* A variant of book that writes its row before the conflict check and
\* leaves it there when the check then fails.
BookWritesFirst(f) ==
  IF /\ BookResponse(f, bookings) \in {FLASH_CREATED, FLASH_OVERLAP}
     /\ ~PeopleRaises(f)
  THEN InsertBooking(f)
  ELSE UNCHANGED stores

\* The whole handler, with no other request in between.
Book(f) ==
  IF BookResponse(f, bookings) = FLASH_CREATED
  THEN InsertBooking(f)
  ELSE UNCHANGED stores

(***************************************************************************)
(* admin_add                                                               *)
(***************************************************************************)
AdminAddValidate(f, tbl) ==
  IF MissingField(f) THEN FLASH_REQUIRED
  ELSE IF EndNotAfterStart(f) THEN FLASH_END
  ELSE IF AnyConflict(f, RowsFor(tbl, f.date, f.room)) THEN FLASH_ADMIN_OVERLAP
  ELSE PASS

AdminAddResponse(f, tbl) ==
  LET v == AdminAddValidate(f, tbl)
  IN  IF v # PASS THEN v
      ELSE IF PeopleRaises(f) THEN HTTP_500
      ELSE FLASH_ADDED

AdminAdd(f) ==
  IF AdminAddResponse(f, bookings) = FLASH_ADDED
  THEN InsertBooking(f)
  ELSE UNCHANGED stores

(***************************************************************************)
(* admin_edit (POST)                                                       *)
(***************************************************************************)
\* SELECT * FROM bookings WHERE id = %s finds a row.
RowFound(tbl, booking_id) == \E r \in tbl : r.id = booking_id

\* SELECT ... WHERE date = %s AND room = %s AND id <> %s.
OtherRowsFor(tbl, date, room, booking_id) ==
  {r \in tbl : r.date = date /\ r.room = room /\ r.id # booking_id}

\* The checks of admin_edit between its lookup and its UPDATE.  Comparing
\* None with a str raises TypeError.
AdminEditValidate(booking_id, f, tbl) ==
  IF f.end_time = NONE \/ f.start_time = NONE THEN HTTP_500
  ELSE IF EndNotAfterStart(f) THEN FLASH_END
  ELSE IF AnyConflict(f, OtherRowsFor(tbl, f.date, f.room, booking_id))
       THEN FLASH_ADMIN_OVERLAP
  ELSE PASS

\* The UPDATE raises: int(people) fails, or a NOT NULL column is set to NULL.
UpdateRaises(f) ==
  \/ PeopleRaises(f)
  \/ f.room = NONE \/ f.date = NONE

\* UPDATE bookings SET ... WHERE id = %s: no row is touched when the id is gone.
UpdateBooking(booking_id, f) ==
  /\ bookings' = {IF r.id = booking_id THEN NewRow(booking_id, f) ELSE r :
                    r \in bookings}
  /\ UNCHANGED <<history, next_id>>

AdminEditResponse(booking_id, f, tbl) ==
  IF ~RowFound(tbl, booking_id) THEN FLASH_NOT_FOUND
  ELSE LET v == AdminEditValidate(booking_id, f, tbl)
       IN  IF v # PASS THEN v
           ELSE IF UpdateRaises(f) THEN HTTP_500
           ELSE FLASH_UPDATED

AdminEdit(booking_id, f) ==
  IF AdminEditResponse(booking_id, f, bookings) = FLASH_UPDATED
  THEN UpdateBooking(booking_id, f)
  ELSE UNCHANGED stores

(***************************************************************************)
(* admin_delete, admin_delete_history                                      *)
(***************************************************************************)
AdminDelete(booking_id) ==
  /\ bookings' = {r \in bookings : r.id # booking_id}
  /\ UNCHANGED <<history, next_id>>

AdminDeleteHistory(history_id) ==
  /\ history' = {h \in history : h.id # history_id}
  /\ UNCHANGED <<bookings, next_id>>

(***************************************************************************)
(* Rooms: admin_add_room, admin_delete_room, admin_edit_room               *)
(***************************************************************************)
ROOM_B == <<"R", "o", "o", "m", " ", "B">>
ROOM_C == <<"R", "o", "o", "m", " ", "C">>
ROOM_D == <<"R", "o", "o", "m", " ", "D">>

\* The rows init_db seeds into an empty rooms table; the serial is then at 4.
SeedRooms ==
  {[id |-> 1, name |-> ROOM_A], [id |-> 2, name |-> ROOM_B],
   [id |-> 3, name |-> ROOM_C]}

\* The largest id the rooms serial hands out in the model.
MaxRoomId == 5

RoomIds == 1..MaxRoomId

\* The name fields submitted: absent, blank, a seeded name, the same name
\* with a trailing blank, and a new name.
RoomNameInputs == {NONE, <<" ">>, ROOM_A, ROOM_A \o <<" ">>, ROOM_D}

\* str.strip() for blanks.
RECURSIVE LStrip(_)
LStrip(s) ==
  IF s # <<>> /\ Head(s) = " " THEN LStrip(Tail(s)) ELSE s

RECURSIVE RStrip(_)
RStrip(s) ==
  IF s # <<>> /\ s[Len(s)] = " " THEN RStrip(SubSeq(s, 1, Len(s) - 1)) ELSE s

Strip(s) == RStrip(LStrip(s))

\* (request.form.get("name") or "").strip()
RoomName(raw) == IF Falsy(raw) THEN <<>> ELSE Strip(raw)

\* INSERT INTO rooms (name): the serial advances whether or not the UNIQUE
\* constraint on name then refuses the row.
AdminAddRoom(raw) ==
  LET name == RoomName(raw)
  IN  IF name = <<>> THEN UNCHANGED room_stores
      ELSE /\ next_room_id <= MaxRoomId
           /\ next_room_id' = next_room_id + 1
           /\ rooms' = IF \E r \in rooms : r.name = name THEN rooms
                       ELSE rooms \cup {[id |-> next_room_id, name |-> name]}

AdminDeleteRoom(room_id) ==
  /\ rooms' = {r \in rooms : r.id # room_id}
  /\ UNCHANGED next_room_id

\* A variant of the UPDATE on a rooms table without UNIQUE on name.
AdminEditRoomUnchecked(room_id, raw) ==
  LET new_name == RoomName(raw)
  IN  /\ rooms' = IF new_name = <<>> THEN rooms
                  ELSE {IF r.id = room_id THEN [r EXCEPT !.name = new_name]
                        ELSE r : r \in rooms}
      /\ UNCHANGED next_room_id

\* UPDATE rooms SET name = %s WHERE id = %s, refused by the UNIQUE constraint
\* when another room holds the name.
AdminEditRoom(room_id, raw) ==
  LET new_name == RoomName(raw)
  IN  /\ rooms' = IF \/ new_name = <<>>
                     \/ \E r \in rooms : r.name = new_name /\ r.id # room_id
                  THEN rooms
                  ELSE {IF r.id = room_id THEN [r EXCEPT !.name = new_name]
                        ELSE r : r \in rooms}
      /\ UNCHANGED next_room_id

(***************************************************************************)
(* archive_past_bookings                                                   *)
(***************************************************************************)
\* combine_datetime raises ValueError on a row of the SELECT.
SweepRaises(rows) == \E r \in rows : combine_raises(r.date, r.end_time)

Expired(rows, now) ==
  {r \in rows : DtLt(combine_datetime(r.date, r.end_time), now)}

HistoryRow(r, stamp) ==
  [id |-> r.id, user_name |-> r.user_name, room |-> r.room, date |-> r.date,
   start_time |-> r.start_time, end_time |-> r.end_time, people |-> r.people,
   archived_at |-> stamp]

\* A variant of the INSERT without ON CONFLICT (id) DO NOTHING, on a history
\* table without its primary key: every row is added.
ArchiveIntoPlain(hist, rows, stamp) ==
  hist \cup {HistoryRow(r, stamp) : r \in rows}

\* A variant of the INSERT with ON CONFLICT (id) DO UPDATE: the record of an
\* id that is archived already is written again, with the new stamp.
ArchiveIntoUpsert(hist, rows, stamp) ==
  {h \in hist : ~\E r \in rows : r.id = h.id}
    \cup {HistoryRow(r, stamp) : r \in rows}

\* INSERT INTO bookings_history ... ON CONFLICT (id) DO NOTHING, for each row.
ArchiveInto(hist, rows, stamp) ==
  hist \cup {HistoryRow(r, stamp) :
               r \in {x \in rows : ~\E h \in hist : h.id = x.id}}

\* The loop and the commit, on the rows and the now the sweep read.
SweepWrites(rows, now, stamp) ==
  IF SweepRaises(rows) THEN UNCHANGED stores
  ELSE /\ history' = ArchiveInto(history, Expired(rows, now), stamp)
       /\ bookings' = {b \in bookings :
                         ~\E r \in Expired(rows, now) : r.id = b.id}
       /\ UNCHANGED next_id

\* The whole sweep, with no other request in between.
ArchivePastBookings == SweepWrites(bookings, NowAt(clock), NowAt(clock))

(***************************************************************************)
(* api_available_times                                                     *)
(***************************************************************************)
\* Python's filter of a list, keeping the order.
RECURSIVE SeqFilter(_, _)
SeqFilter(Keep(_), s) ==
  IF s = <<>> THEN <<>>
  ELSE (IF Keep(Head(s)) THEN <<Head(s)>> ELSE <<>>)
       \o SeqFilter(Keep, Tail(s))

starts_available(booked) ==
  LET Free(s) == ~\E b \in booked :
                    overlaps(t2min(s), t2min(s) + STEP_MINUTES, b[1], b[2])
  IN  SeqFilter(Free, generate_halfhour_slots(DAY_START, DAY_END))

\* block_after: the smallest booked start at or after the selected start.
block_after(booked, s_m) ==
  LET after == {b[1] : b \in {x \in booked :
                                x[1] >= s_m /\ x[1] < t2min(DAY_END)}}
  IN  IF after = {} THEN t2min(DAY_END)
      ELSE CHOOSE m \in after : \A n \in after : m <= n

\* The loop over ends_all, which stops at the first end that is refused.
RECURSIVE TakeEnds(_, _, _)
TakeEnds(ends_all, booked, s_m) ==
  IF ends_all = <<>> THEN <<>>
  ELSE LET e_m == t2min(Head(ends_all))
       IN  IF e_m > block_after(booked, s_m) THEN <<>>
           ELSE IF \E b \in booked : overlaps(s_m, e_m, b[1], b[2]) THEN <<>>
           ELSE <<Head(ends_all)>> \o TakeEnds(Tail(ends_all), booked, s_m)

\* A variant of the ends that takes the start of the day for a start that
\* is not selected.
ends_from_day_start(booked, start_sel) ==
  LET s_m == IF Falsy(start_sel) THEN t2min(DAY_START) ELSE t2min(start_sel)
      ends_all == SeqMap(min2t, Range(s_m + STEP_MINUTES,
                                      t2min(DAY_END) + 1, STEP_MINUTES))
  IN  TakeEnds(ends_all, booked, s_m)

ends_available(booked, start_sel) ==
  IF Falsy(start_sel) THEN <<>>
  ELSE LET s_m == t2min(start_sel)
           ends_all == SeqMap(min2t, Range(s_m + STEP_MINUTES,
                                           t2min(DAY_END) + 1, STEP_MINUTES))
       IN  TakeEnds(ends_all, booked, s_m)

\* The body of the 400 response.
API_ERROR == "room and date are required"

\* The response: the JSON error with status 400 without room or date, the
\* server's 500 page on a ValueError, the JSON of starts and ends otherwise.
ApiAvailableTimes(tbl, room, date_str, start_sel) ==
  IF Falsy(room) \/ Falsy(date_str)
  THEN [status |-> 400, ok |-> FALSE, error |-> API_ERROR]
  ELSE IF \/ load_booked_raises(tbl, room, date_str)
          \/ (~Falsy(start_sel) /\ t2minRaises(start_sel))
  THEN [status |-> 500]
  ELSE LET booked == load_booked_intervals(tbl, room, date_str)
       IN  [status |-> 200, ok |-> TRUE,
            starts |-> starts_available(booked),
            ends |-> ends_available(booked, start_sel)]

(***************************************************************************)
(* Whole handler calls, with no other request in between.                  *)
(***************************************************************************)
\* The forms the request sequences that run one at a time are made of.
TraceForms ==
  [user_name : UserInputs, room : {ROOM_A}, date : DateInputs,
   start_time : TimeInputs, end_time : TimeInputs, people : {<<>>}]

\* The forms of the interleaved requests: grid times.
RaceForms ==
  [user_name : UserInputs, room : {ROOM_A}, date : DateInputs,
   start_time : {T0900, T0930, T1000}, end_time : {T0900, T0930, T1000},
   people : {<<>>}]

book(forms) ==
  /\ \E f \in forms : Book(f)
  /\ UNCHANGED <<clock, room_stores, req, probe, session>>

admin_add(forms) ==
  /\ \E f \in forms : AdminAdd(f)
  /\ UNCHANGED <<clock, room_stores, req, probe, session>>

admin_edit(forms) ==
  /\ \E booking_id \in Ids, f \in forms : AdminEdit(booking_id, f)
  /\ UNCHANGED <<clock, room_stores, req, probe, session>>

admin_delete ==
  /\ \E booking_id \in Ids : AdminDelete(booking_id)
  /\ UNCHANGED <<clock, room_stores, req, probe, session>>

admin_delete_history ==
  /\ \E history_id \in Ids : AdminDeleteHistory(history_id)
  /\ UNCHANGED <<clock, room_stores, req, probe, session>>

\* index and admin_dashboard call the sweep before they read.
archive_past_bookings ==
  /\ ArchivePastBookings
  /\ UNCHANGED <<clock, room_stores, req, probe, session>>

Tick ==
  /\ clock < MaxTick
  /\ clock' = clock + 1
  /\ UNCHANGED <<stores, room_stores, req, probe, session>>

(***************************************************************************)
(* The handler of connection p, statement by statement: under READ         *)
(* COMMITTED each statement sees what is committed when it runs, and the   *)
(* handler's writes become visible at its commit.                          *)
(***************************************************************************)
Idle == [op |-> "idle"]

Done(p) == req' = [req EXCEPT ![p] = Idle]

\* book up to its SELECT and the loop over the rows.
book_select(p) ==
  /\ req[p] = Idle
  /\ next_id <= MaxId
  /\ \E f \in RaceForms :
       IF BookValidate(f, bookings) = PASS
       THEN req' = [req EXCEPT ![p] = [op |-> "book", form |-> f]]
       ELSE UNCHANGED req
  /\ UNCHANGED <<stores, clock, room_stores, probe, session>>

\* book's INSERT and commit.
book_insert(p) ==
  /\ req[p].op = "book"
  /\ IF PeopleRaises(req[p].form) THEN UNCHANGED stores
     ELSE InsertBooking(req[p].form)
  /\ Done(p)
  /\ UNCHANGED <<clock, room_stores, probe, session>>

admin_add_select(p) ==
  /\ req[p] = Idle
  /\ next_id <= MaxId
  /\ \E f \in RaceForms :
       IF AdminAddValidate(f, bookings) = PASS
       THEN req' = [req EXCEPT ![p] = [op |-> "admin_add", form |-> f]]
       ELSE UNCHANGED req
  /\ UNCHANGED <<stores, clock, room_stores, probe, session>>

admin_add_insert(p) ==
  /\ req[p].op = "admin_add"
  /\ IF PeopleRaises(req[p].form) THEN UNCHANGED stores
     ELSE InsertBooking(req[p].form)
  /\ Done(p)
  /\ UNCHANGED <<clock, room_stores, probe, session>>

\* admin_edit's lookup of the row, its checks and its SELECT of the others.
admin_edit_select(p) ==
  /\ req[p] = Idle
  /\ \E booking_id \in Ids, f \in RaceForms :
       IF /\ RowFound(bookings, booking_id)
          /\ AdminEditValidate(booking_id, f, bookings) = PASS
       THEN req' = [req EXCEPT ![p] =
                      [op |-> "admin_edit", id |-> booking_id, form |-> f]]
       ELSE UNCHANGED req
  /\ UNCHANGED <<stores, clock, room_stores, probe, session>>

\* admin_edit's UPDATE and commit, then flash("Booking updated.").
admin_edit_update(p) ==
  /\ req[p].op = "admin_edit"
  /\ IF UpdateRaises(req[p].form) THEN UNCHANGED stores
     ELSE UpdateBooking(req[p].id, req[p].form)
  /\ Done(p)
  /\ UNCHANGED <<clock, room_stores, probe, session>>

\* archive_past_bookings: now = datetime.now() and SELECT * FROM bookings.
sweep_select(p) ==
  /\ req[p] = Idle
  /\ req' = [req EXCEPT ![p] =
               [op |-> "sweep", rows |-> bookings, now |-> NowAt(clock)]]
  /\ UNCHANGED <<stores, clock, room_stores, probe, session>>

\* The loop of INSERT and DELETE, stamped with the clock of that time, and
\* the commit.
sweep_write(p) ==
  /\ req[p].op = "sweep"
  /\ SweepWrites(req[p].rows, req[p].now, NowAt(clock))
  /\ Done(p)
  /\ UNCHANGED <<clock, room_stores, probe, session>>

admin_delete_statement(p) ==
  /\ req[p] = Idle
  /\ \E booking_id \in Ids : AdminDelete(booking_id)
  /\ UNCHANGED <<clock, room_stores, req, probe, session>>

admin_delete_history_statement(p) ==
  /\ req[p] = Idle
  /\ \E history_id \in Ids : AdminDeleteHistory(history_id)
  /\ UNCHANGED <<clock, room_stores, req, probe, session>>

(***************************************************************************)
(* Specifications                                                          *)
(***************************************************************************)
\* The connections that handle requests at the same time.
Procs == {1, 2}

\* An empty database; the admin requests of the specifications that start
\* here come from browsers that have logged in.
Init ==
  /\ bookings = {}
  /\ history = {}
  /\ next_id = 1
  /\ clock = 0
  /\ req = [p \in Procs |-> Idle]
  /\ session = [c \in Clients |-> AdminSession]
  /\ probe = NONE
  /\ rooms = SeedRooms
  /\ next_room_id = 4

admin_add_room ==
  /\ \E raw \in RoomNameInputs : AdminAddRoom(raw)
  /\ UNCHANGED <<stores, clock, req, probe, session>>

admin_delete_room ==
  /\ \E room_id \in RoomIds : AdminDeleteRoom(room_id)
  /\ UNCHANGED <<stores, clock, req, probe, session>>

admin_edit_room ==
  /\ \E room_id \in RoomIds, raw \in RoomNameInputs :
       AdminEditRoom(room_id, raw)
  /\ UNCHANGED <<stores, clock, req, probe, session>>

\* The room handlers, one at a time.
RoomNext == admin_add_room \/ admin_delete_room \/ admin_edit_room

RoomSpec == Init /\ [][RoomNext]_vars

\* Requests that run one at a time.
SeqNext ==
  \/ book(TraceForms) \/ admin_add(TraceForms) \/ admin_edit(TraceForms)
  \/ admin_delete
  \/ admin_delete_history \/ archive_past_bookings \/ Tick

SeqSpec == Init /\ [][SeqNext]_vars

\* Requests of two connections, interleaved statement by statement.
Next ==
  \/ \E p \in Procs : book_select(p)
  \/ \E p \in Procs : book_insert(p)
  \/ \E p \in Procs : admin_add_select(p)
  \/ \E p \in Procs : admin_add_insert(p)
  \/ \E p \in Procs : admin_edit_select(p)
  \/ \E p \in Procs : admin_edit_update(p)
  \/ \E p \in Procs : admin_delete_statement(p)
  \/ \E p \in Procs : admin_delete_history_statement(p)
  \/ \E p \in Procs : sweep_select(p)
  \/ \E p \in Procs : sweep_write(p)
  \/ Tick

Spec == Init /\ [][Next]_vars

(***************************************************************************)
(* One request against every table the store can hold: the handler as a    *)
(* function of its form and of the rows it reads.                          *)
(***************************************************************************)
\* The rows an INSERT or UPDATE can have written.
StorableRows(id) ==
  {NewRow(id, f) : f \in {g \in Forms : AdminAddResponse(g, {}) = FLASH_ADDED}}

\* The tables of at most MaxId rows, with their primary key.
ValTables ==
  UNION {{{rw[id] : id \in ids} : rw \in [ids -> UNION {StorableRows(i) : i \in ids}]}
           : ids \in SUBSET Ids}

KeyedTables == {t \in ValTables : \A r \in t : \A q \in t : r.id = q.id => r = q}

\* A start that t2min cannot parse: it has no colon.
T_BAD == <<"9">>

StartInputs == TimeInputs \cup {NONE, DAY_END}

ValRequests ==
  {[op |-> "book", form |-> f] : f \in Forms}
  \cup {[op |-> "admin_add", form |-> f] : f \in Forms}
  \cup {[op |-> "admin_edit", id |-> i, form |-> f] : i \in Ids, f \in Forms}
  \cup {[op |-> "api", room |-> r, date |-> d, start |-> st] :
          r \in RoomInputs, d \in DateInputs \cup {NONE, <<>>},
          st \in StartInputs \cup {<<>>, T_BAD}}
  \cup {[op |-> "sweep"]}

\* The histories a sweep can find: nothing, or the record of a booking that
\* an earlier sweep archived, whose id the serial has passed.
ValHistories(tbl, serial) ==
  {{}} \cup {{HistoryRow(r, NowAt(0))} :
              r \in UNION {StorableRows(i) :
                             i \in {j \in Ids : /\ j < serial
                                                /\ \A b \in tbl : b.id # j}}}

ValInit ==
  /\ bookings \in KeyedTables
  /\ next_id \in {n \in 1..(MaxId + 1) : \A r \in bookings : r.id < n}
  /\ req = [p \in Procs |-> Idle]
  /\ session = [c \in Clients |-> AdminSession]
  /\ \E rq \in ValRequests :
       probe = [phase |-> "request", request |-> rq, before |-> bookings,
                response |-> ""]
  /\ history \in IF probe.request.op = "sweep"
                 THEN ValHistories(bookings, next_id) ELSE {{}}
  /\ rooms = SeedRooms
  /\ next_room_id = 4
  /\ clock \in IF probe.request.op = "sweep" THEN 0..MaxTick ELSE {0}

Respond(r) == probe' = [probe EXCEPT !.phase = "response", !.response = r]

val_book ==
  /\ probe.phase = "request" /\ probe.request.op = "book"
  /\ Book(probe.request.form)
  /\ Respond(BookResponse(probe.request.form, bookings))
  /\ UNCHANGED <<clock, room_stores, req, session>>

val_admin_add ==
  /\ probe.phase = "request" /\ probe.request.op = "admin_add"
  /\ AdminAdd(probe.request.form)
  /\ Respond(AdminAddResponse(probe.request.form, bookings))
  /\ UNCHANGED <<clock, room_stores, req, session>>

val_admin_edit ==
  /\ probe.phase = "request" /\ probe.request.op = "admin_edit"
  /\ AdminEdit(probe.request.id, probe.request.form)
  /\ Respond(AdminEditResponse(probe.request.id, probe.request.form, bookings))
  /\ UNCHANGED <<clock, room_stores, req, session>>

val_api ==
  /\ probe.phase = "request" /\ probe.request.op = "api"
  /\ Respond(ApiAvailableTimes(bookings, probe.request.room,
                               probe.request.date, probe.request.start))
  /\ UNCHANGED <<stores, clock, room_stores, req, session>>

val_sweep ==
  /\ probe.phase = "request" /\ probe.request.op = "sweep"
  /\ ArchivePastBookings
  /\ Respond(IF SweepRaises(bookings) THEN HTTP_500 ELSE "200 OK")
  /\ UNCHANGED <<clock, room_stores, req, session>>

\* The sweep once more, at the same instant, on what the first run left.
val_sweep_again ==
  /\ probe.phase = "response" /\ probe.request.op = "sweep"
  /\ ArchivePastBookings
  /\ probe' = [phase |-> "again", request |-> probe.request,
               before |-> probe.before, response |-> probe.response,
               once |-> [bookings |-> bookings, history |-> history],
               again |-> IF SweepRaises(bookings) THEN HTTP_500 ELSE "200 OK"]
  /\ UNCHANGED <<clock, room_stores, req, session>>

ValNext ==
  \/ val_book \/ val_admin_add \/ val_admin_edit \/ val_api
  \/ val_sweep \/ val_sweep_again

ValSpec == ValInit /\ [][ValNext]_vars

(***************************************************************************)
(* The two string tests of the handlers on every four times of the grid.   *)
(***************************************************************************)
CmpInit ==
  /\ bookings = {} /\ history = {} /\ next_id = 1 /\ clock = 0
  /\ req = [p \in Procs |-> Idle]
  /\ session = [c \in Clients |-> AdminSession]
  /\ rooms = SeedRooms /\ next_room_id = 4
  /\ \E s \in ALLOWED_SET, e \in ALLOWED_SET,
        b0 \in ALLOWED_SET, b1 \in ALLOWED_SET :
       probe = [phase |-> "request",
                request |-> [op |-> "compare", start_time |-> s,
                             end_time |-> e,
                             row |-> [start_time |-> b0, end_time |-> b1]],
                before |-> {}, response |-> ""]

\* end_time <= start_time and the conflict test, as the handlers write them.
cmp_strings ==
  /\ probe.phase = "request" /\ probe.request.op = "compare"
  /\ Respond([end_first |-> EndNotAfterStart(probe.request),
              conflict |-> RowConflicts(probe.request.start_time,
                                        probe.request.end_time,
                                        probe.request.row)])
  /\ UNCHANGED <<stores, room_stores, clock, req, session>>

CmpNext == cmp_strings

CmpSpec == CmpInit /\ [][CmpNext]_vars

(***************************************************************************)
(* migrate_sqlite_to_postgres.py: the script copies the rows of the old    *)
(* SQLite file into PostgreSQL with the ids they had. An INSERT that names *)
(* its id does not draw from the serial of bookings.id.                    *)
(***************************************************************************)
BOB == <<"b", "o", "b">>

\* archived_at of the records of the old file: 2024-12-31 12:00.
OLD_STAMP == <<2024, 12, 31, 12, 0>>

\* A record of bookings_history in the old file.
OldHistoryRow(id) ==
  [id |-> id, user_name |-> BOB, room |-> ROOM_A, date |-> TODAY,
   start_time |-> T0900, end_time |-> T0930, people |-> NONE,
   archived_at |-> OLD_STAMP]

\* The bookings_history tables the old file can hold; its bookings table is
\* empty and its rooms are the seeded ones, so those two copies write nothing.
OldHistories == SUBSET {OldHistoryRow(id) : id \in Ids}

\* INSERT INTO bookings_history (id, ...) VALUES %s ON CONFLICT (id) DO NOTHING.
MigrateHistory(old) ==
  /\ history' = history \cup {h \in old : ~\E g \in history : g.id = h.id}
  /\ UNCHANGED <<bookings, next_id>>

migrate_sqlite_to_postgres ==
  /\ \E old \in OldHistories : MigrateHistory(old)
  /\ UNCHANGED <<clock, room_stores, req, probe, session>>

\* The script and the requests, one at a time.
MigNext == migrate_sqlite_to_postgres \/ SeqNext

MigSpec == Init /\ [][MigNext]_vars

(***************************************************************************)
(* Admin authentication: admin_required, admin_login, admin_logout and     *)
(* api_admin_alerts.                                                       *)
(***************************************************************************)
ADMIN_USER == <<"a", "d", "m", "i", "n">>
ADMIN_PASS == <<"a", "d", "m", "i", "n", "1", "2", "3">>

\* What the login form posts as username and as password.
CredInputs ==
  {NONE, ADMIN_USER, <<" ">> \o ADMIN_USER, ADMIN_PASS,
   ADMIN_PASS \o <<" ">>}

\* (request.form.get("username") or "").strip()
Credential(raw) == IF Falsy(raw) THEN <<>> ELSE Strip(raw)

\* session.get("is_admin") is truthy.
SessionIsAdmin(s) == \E kv \in s : kv[1] = "is_admin" /\ kv[2] = TRUE

\* A variant of admin_required that lets every request through.
AdminRequiredOpen(c) == TRUE

\* The wrapper of admin_required calls the handler.
AdminRequired(c) == SessionIsAdmin(session[c])

\* admin_login (POST).
AdminLogin(c, username, password) ==
  session' =
    IF Credential(username) = ADMIN_USER /\ Credential(password) = ADMIN_PASS
    THEN [session EXCEPT
            ![c] = {kv \in session[c] : kv[1] # "is_admin"} \cup AdminSession]
    ELSE session

\* admin_logout: session.clear().
AdminLogout(c) == session' = [session EXCEPT ![c] = NoSession]

\* now.strftime("%Y-%m-%d"), for a year of four digits.
DateText(now) ==
  Decimal(now[1]) \o <<"-">> \o Pad2(now[2]) \o <<"-">> \o Pad2(now[3])

\* now + timedelta(minutes=k), for k below a day.
AddMinutes(now, k) ==
  LET total == now[4] * 60 + now[5] + k
      hm == <<(total % 1440) \div 60, total % 60>>
  IN  IF total < 1440 THEN <<now[1], now[2], now[3]>> \o hm
      ELSE IF now[3] < DaysIn(now[1], now[2])
           THEN <<now[1], now[2], now[3] + 1>> \o hm
      ELSE IF now[2] < 12 THEN <<now[1], now[2] + 1, 1>> \o hm
      ELSE <<now[1] + 1, 1, 1>> \o hm

\* now <= dt <= horizon, where _combine_dt gave a datetime and not None.
WithinHorizon(d, t, now) ==
  /\ ~combine_raises(d, t)
  /\ ~DtLt(combine_datetime(d, t), now)
  /\ ~DtLt(AddMinutes(now, 15), combine_datetime(d, t))

\* The entries one row appends to alerts (msg repeats room, when and user).
RowAlerts(r, now) ==
  (IF WithinHorizon(r.date, r.start_time, now)
   THEN <<[id |-> <<"start", r.id>>, type |-> "start",
           when |-> r.start_time, room |-> r.room, user |-> r.user_name]>>
   ELSE <<>>)
  \o
  (IF WithinHorizon(r.date, r.end_time, now)
   THEN <<[id |-> <<"end", r.id>>, type |-> "end",
           when |-> r.end_time, room |-> r.room, user |-> r.user_name]>>
   ELSE <<>>)

RECURSIVE AlertsOf(_, _)
AlertsOf(rows, now) ==
  IF rows = <<>> THEN <<>>
  ELSE RowAlerts(Head(rows), now) \o AlertsOf(Tail(rows), now)

\* SELECT ... WHERE date = %s ORDER BY start_time: every order of the rows
\* that is sorted by start_time, rows of equal start_time in any order.
TodayRows(tbl, now) ==
  LET today == {r \in tbl : r.date = DateText(now)}
  IN  {o \in [1..Cardinality(today) -> today] :
         /\ \A i \in DOMAIN o : \A j \in DOMAIN o : o[i] = o[j] => i = j
         /\ \A i \in DOMAIN o : \A j \in DOMAIN o :
              i < j => StrLe(o[i].start_time, o[j].start_time)}

\* The JSON bodies api_admin_alerts can answer with; the status is 200.
ApiAdminAlerts(s, tbl, now) ==
  IF ~SessionIsAdmin(s) THEN {[ok |-> FALSE, alerts |-> <<>>]}
  ELSE {[ok |-> TRUE, alerts |-> AlertsOf(rows, now)] :
          rows \in TodayRows(tbl, now)}

\* The forms and names of the requests that meet the gate.
AuthForms ==
  [user_name : UserInputs, room : {ROOM_A}, date : {TODAY},
   start_time : {T0930}, end_time : {T1000, T900}, people : {<<>>}]

AuthRoomNames == {ROOM_D}

AuthRoomIds == {3, 4}

AuthInit ==
  /\ bookings = {}
  /\ history = {}
  /\ next_id = 1
  /\ clock = 0
  /\ req = [p \in Procs |-> Idle]
  /\ session = [c \in Clients |-> NoSession]
  /\ probe = [op |-> "none"]
  /\ rooms = SeedRooms
  /\ next_room_id = 4

auth_admin_login(c) ==
  /\ \E username \in CredInputs, password \in CredInputs :
       AdminLogin(c, username, password)
  /\ UNCHANGED <<stores, room_stores, clock, req, probe>>

auth_admin_logout(c) ==
  /\ AdminLogout(c)
  /\ UNCHANGED <<stores, room_stores, clock, req, probe>>

auth_admin_add(c) ==
  /\ IF AdminRequired(c) THEN \E f \in AuthForms : AdminAdd(f)
     ELSE UNCHANGED stores
  /\ UNCHANGED <<clock, room_stores, req, probe, session>>

auth_admin_edit(c) ==
  /\ IF AdminRequired(c)
     THEN \E booking_id \in Ids, f \in AuthForms : AdminEdit(booking_id, f)
     ELSE UNCHANGED stores
  /\ UNCHANGED <<clock, room_stores, req, probe, session>>

auth_admin_delete(c) ==
  /\ IF AdminRequired(c) THEN \E booking_id \in Ids : AdminDelete(booking_id)
     ELSE UNCHANGED stores
  /\ UNCHANGED <<clock, room_stores, req, probe, session>>

auth_admin_delete_history(c) ==
  /\ IF AdminRequired(c)
     THEN \E history_id \in Ids : AdminDeleteHistory(history_id)
     ELSE UNCHANGED stores
  /\ UNCHANGED <<clock, room_stores, req, probe, session>>

auth_admin_add_room(c) ==
  /\ IF AdminRequired(c) THEN \E raw \in AuthRoomNames : AdminAddRoom(raw)
     ELSE UNCHANGED room_stores
  /\ UNCHANGED <<stores, clock, req, probe, session>>

auth_admin_delete_room(c) ==
  /\ IF AdminRequired(c)
     THEN \E room_id \in AuthRoomIds : AdminDeleteRoom(room_id)
     ELSE UNCHANGED room_stores
  /\ UNCHANGED <<stores, clock, req, probe, session>>

auth_admin_edit_room(c) ==
  /\ IF AdminRequired(c)
     THEN \E room_id \in AuthRoomIds, raw \in AuthRoomNames :
            AdminEditRoom(room_id, raw)
     ELSE UNCHANGED room_stores
  /\ UNCHANGED <<stores, clock, req, probe, session>>

\* admin_dashboard runs the sweep behind the gate.
auth_admin_dashboard(c) ==
  /\ IF AdminRequired(c) THEN ArchivePastBookings ELSE UNCHANGED stores
  /\ UNCHANGED <<clock, room_stores, req, probe, session>>

auth_api_admin_alerts(c) ==
  /\ \E body \in ApiAdminAlerts(session[c], bookings, NowAt(clock)) :
       probe' = [op |-> "alerts", client |-> c, response |-> body]
  /\ UNCHANGED <<stores, room_stores, clock, req, session>>

\* The seven admin operations that write, for browser c.
AdminWrite(c) ==
  \/ auth_admin_add(c) \/ auth_admin_edit(c) \/ auth_admin_delete(c)
  \/ auth_admin_delete_history(c)
  \/ auth_admin_add_room(c) \/ auth_admin_edit_room(c)
  \/ auth_admin_delete_room(c)

\* Logins, logouts and requests of the browsers, one at a time; book and
\* index need no session.
AuthNext ==
  \/ \E c \in Clients : auth_admin_login(c)
  \/ \E c \in Clients : auth_admin_logout(c)
  \/ \E c \in Clients : auth_admin_add(c)
  \/ \E c \in Clients : auth_admin_edit(c)
  \/ \E c \in Clients : auth_admin_delete(c)
  \/ \E c \in Clients : auth_admin_delete_history(c)
  \/ \E c \in Clients : auth_admin_add_room(c)
  \/ \E c \in Clients : auth_admin_edit_room(c)
  \/ \E c \in Clients : auth_admin_delete_room(c)
  \/ \E c \in Clients : auth_admin_dashboard(c)
  \/ \E c \in Clients : auth_api_admin_alerts(c)
  \/ book(AuthForms)
  \/ archive_past_bookings
  \/ Tick

AuthSpec == AuthInit /\ [][AuthNext]_vars

(***************************************************************************)
(* Properties                                                              *)
(***************************************************************************)
SameSlotKey(a, b) == a.room = b.room /\ a.date = b.date

\* Half-open overlap of two rows, in minutes since midnight.
MinutesOverlap(a, b) ==
  /\ t2min(a.start_time) < t2min(b.end_time)
  /\ t2min(b.start_time) < t2min(a.end_time)

\* C1: after any sequence of book, admin_add, admin_edit, admin_delete and
\* sweeps that run one at a time from the empty table, two distinct active
\* bookings of the same room and date never overlap, times taken as minutes
\* since midnight.
C1_SequentialNoOverlap ==
  \A a \in bookings : \A b \in bookings :
    (a.id # b.id /\ SameSlotKey(a, b)) => ~MinutesOverlap(a, b)

\* C2: a book request that passed its checks on the rows it read is inserted
\* whatever has been committed since: when its INSERT runs while the table
\* holds a row of the same room and date that overlaps its form, the row is
\* added all the same and the table then holds both.
C2_RaceBothInserted ==
  [][\A p \in Procs :
       (/\ book_insert(p)
        /\ \E r \in RowsFor(bookings, req[p].form.date, req[p].form.room) :
             MinutesOverlap(req[p].form, r))
       => /\ NewRow(next_id, req[p].form) \in bookings'
          /\ bookings \subseteq bookings']_vars

\* C2 witness: two overlapping active bookings of one room and date, both on
\* the grid, while no request is in flight.
C2_Overlapping ==
  /\ \A p \in Procs : req[p] = Idle
  /\ \E a \in bookings : \E b \in bookings :
       /\ a.id # b.id /\ SameSlotKey(a, b) /\ MinutesOverlap(a, b)
       /\ {a.start_time, a.end_time, b.start_time, b.end_time}
            \subseteq ALLOWED_SET

\* C3: the start and the end of every active booking are on the grid
\* 09:00, 09:30, ..., 17:00.
C3_ActiveOnGrid ==
  \A r \in bookings :
    r.start_time \in ALLOWED_SET /\ r.end_time \in ALLOWED_SET

\* The state after the observed request of one kind has been answered.
Answered(op) == probe.phase = "response" /\ probe.request.op = op

\* The grid 09:00, 09:30, ..., 17:00 written out: hours 9 to 17, minutes 00
\* and 30, without 17:30.
CanonicalGrid ==
  {Pad2(h) \o <<":">> \o mm : h \in 9..17, mm \in {<<"0", "0">>, <<"3", "0">>}}
    \ {<<"1", "7", ":", "3", "0">>}

FieldMissing(f) ==
  \E v \in {f.user_name, f.room, f.date, f.start_time, f.end_time} :
    v = NONE \/ Len(v) = 0

TimesOffGrid(f) ==
  ~(f.start_time \in CanonicalGrid /\ f.end_time \in CanonicalGrid)

\* The first check of the order missing-field, invalid-time-grid,
\* end-before-start, slot-conflict that the form fails, as the message book
\* flashes for it; PASS when it fails none.
FirstFailure(f, tbl) ==
  LET fails == <<FieldMissing(f),
                 ~FieldMissing(f) /\ TimesOffGrid(f),
                 ~FieldMissing(f) /\ ~TimesOffGrid(f)
                   /\ t2min(f.end_time) <= t2min(f.start_time),
                 ~FieldMissing(f)
                   /\ \E r \in tbl : /\ r.room = f.room /\ r.date = f.date
                                     /\ RowConflicts(f.start_time, f.end_time, r)>>
      msgs == <<FLASH_REQUIRED, FLASH_GRID, FLASH_END, FLASH_OVERLAP>>
  IN  IF \A i \in 1..4 : ~fails[i] THEN PASS
      ELSE msgs[CHOOSE i \in 1..4 : fails[i] /\ \A j \in 1..(i - 1) : ~fails[j]]

\* C4: book reports the first check that fails, in the order missing-field,
\* invalid-time-grid, end-before-start, slot-conflict, also for a form that
\* fails several checks; it gets to its INSERT only when none fails.
C4_FirstFailureWins ==
  Answered("book") =>
    LET first == FirstFailure(probe.request.form, probe.before)
    IN  IF first = PASS
        THEN probe.response \in {FLASH_CREATED, HTTP_500}
        ELSE probe.response = first

\* C4 witness: book has answered a form that is off the grid and whose end
\* is not after its start with the grid message.
C4_OffGridAndReversed ==
  /\ Answered("book")
  /\ ~FieldMissing(probe.request.form)
  /\ TimesOffGrid(probe.request.form)
  /\ StrLe(probe.request.form.end_time, probe.request.form.start_time)
  /\ probe.response = FLASH_GRID

\* The active set with the edited booking removed.
WithoutEdited == {r \in probe.before : r.id # probe.request.id}

\* C5: admin_edit accepts a form for an existing booking exactly when book's
\* checks accept it against the active bookings without the edited one.
C5_EditDecidesLikeBook ==
  (Answered("admin_edit") /\ RowFound(probe.before, probe.request.id)) =>
    ((probe.response = FLASH_UPDATED)
       <=> (BookResponse(probe.request.form, WithoutEdited) = FLASH_CREATED))

\* A candidate as the data model wants it: every field present, both times
\* on the grid, the end after the start.
ValidCandidate(f) ==
  /\ ~FieldMissing(f)
  /\ ~TimesOffGrid(f)
  /\ t2min(f.start_time) < t2min(f.end_time)

\* The existing bookings the candidate of the observed request is checked
\* against: those of its room and date, without the booking an edit replaces.
Existing ==
  {r \in probe.before :
     /\ r.room = probe.request.form.room
     /\ r.date = probe.request.form.date
     /\ (probe.request.op = "admin_edit" => r.id # probe.request.id)}

Touches(f, r) ==
  \/ t2min(f.start_time) = t2min(r.end_time)
  \/ t2min(f.end_time) = t2min(r.start_time)

RejectedAsConflict == probe.response \in {FLASH_OVERLAP, FLASH_ADMIN_OVERLAP}

\* C6: for a valid grid candidate, overlaps() is false on every existing
\* booking it only touches, and book, admin_add and admin_edit reject it as a
\* slot conflict exactly when its interval overlaps an existing booking of
\* its room and date (start < b1 and b0 < end, in minutes).
C6_TouchingNeverConflicts ==
  (/\ probe.phase = "response"
   /\ probe.request.op \in {"book", "admin_add", "admin_edit"}
   /\ (probe.request.op = "admin_edit"
         => RowFound(probe.before, probe.request.id))
   /\ ValidCandidate(probe.request.form))
  => /\ \A r \in Existing :
          Touches(probe.request.form, r)
            => ~overlaps(t2min(probe.request.form.start_time),
                         t2min(probe.request.form.end_time),
                         t2min(r.start_time), t2min(r.end_time))
     /\ RejectedAsConflict
          <=> \E r \in Existing : MinutesOverlap(probe.request.form, r)

Accepted ==
  probe.response \in {FLASH_CREATED, FLASH_ADDED, FLASH_UPDATED}

\* C7: a request of book, admin_add or admin_edit that is rejected leaves the
\* active set and the history as they were; one that is accepted adds exactly
\* one booking with the form's fields (book, admin_add) or replaces exactly
\* the edited booking by the form's fields (admin_edit), and changes nothing
\* else.
C7_NoPartialApply ==
  (/\ probe.phase = "response"
   /\ probe.request.op \in {"book", "admin_add", "admin_edit"})
  => /\ history = {}
     /\ IF ~Accepted THEN bookings = probe.before
        ELSE IF probe.request.op = "admin_edit"
        THEN \E old \in probe.before :
               /\ old.id = probe.request.id
               /\ bookings = (probe.before \ {old})
                               \cup {NewRow(old.id, probe.request.form)}
        ELSE \E id \in Ids :
               /\ \A r \in probe.before : r.id # id
               /\ bookings = probe.before
                               \cup {NewRow(id, probe.request.form)}

\* C7 witness: book has rejected a candidate as a slot conflict and the
\* table is the one it read.
C7_RejectedUntouched ==
  /\ Answered("book")
  /\ probe.response = FLASH_OVERLAP
  /\ probe.before # {}
  /\ bookings = probe.before

\* The minutes of the intervals api_available_times loaded.
BookedBefore ==
  {<<t2min(r.start_time), t2min(r.end_time)>> :
     r \in {x \in probe.before : /\ x.room = probe.request.room
                                 /\ x.date = probe.request.date}}

FreeInterval(s, e) == \A b \in BookedBefore : ~(s < b[2] /\ b[1] < e)

ApiAnswered ==
  Answered("api") /\ probe.response.status = 200

\* C8: for a selected start s on the grid the returned ends are s+30, s+60,
\* ..., s+30k, and they are exactly the ends e with s < e <= 17:00 for which
\* [s, e) overlaps no existing booking.
C8_EndsMaximalRun ==
  (ApiAnswered /\ probe.request.start \in CanonicalGrid) =>
    LET s == t2min(probe.request.start)
        ends == probe.response.ends
    IN  /\ \A i \in 1..Len(ends) : ends[i] = min2t(s + 30 * i)
        /\ SeqToSet(ends)
             = {min2t(e) : e \in {x \in (s + 1)..(17 * 60) :
                                    (x - s) % 30 = 0 /\ FreeInterval(s, x)}}

\* C9: the returned starts are the slots 09:00, 09:30, ..., 16:30 whose half
\* hour overlaps no existing booking of the room and date, in increasing
\* order; all 16 of them when there is no booking; 17:00 never.
C9_StartsAreFreeSlots ==
  ApiAnswered =>
    LET starts == probe.response.starts
        free == {k \in 0..15 :
                   FreeInterval(9 * 60 + 30 * k, 9 * 60 + 30 * k + 30)}
    IN  /\ SeqToSet(starts) = {min2t(9 * 60 + 30 * k) : k \in free}
        /\ Len(starts) = Cardinality(free)
        /\ \A i \in 1..Len(starts) : \A j \in 1..Len(starts) :
             i < j => t2min(starts[i]) < t2min(starts[j])
        /\ (BookedBefore = {} => Len(starts) = 16)
        /\ DAY_END \notin SeqToSet(starts)

\* C9 witness: the API has answered for a room and date that have a booking,
\* with some slots free and some taken.
C9_SomeSlotsTaken ==
  /\ ApiAnswered
  /\ BookedBefore # {}
  /\ Len(probe.response.starts) \in 1..15

\* The (date, end) instant of a row, where strptime gives one.
HasInstant(r) == ~combine_raises(r.date, r.end_time)

ExpiredAt(r, now) == DtLt(combine_datetime(r.date, r.end_time), now)

SameBooking(h, r) ==
  /\ h.id = r.id /\ h.user_name = r.user_name /\ h.room = r.room
  /\ h.date = r.date /\ h.start_time = r.start_time
  /\ h.end_time = r.end_time /\ h.people = r.people

\* C10: after one sweep at instant now no active booking has an end instant
\* before now, every booking that was active with an end instant before now
\* is in history with its id, its fields and an archive stamp, and every
\* booking with an end instant at or after now is still active, unchanged.
C10_SweepMovesExpired ==
  Answered("sweep") =>
    LET now == NowAt(clock)
    IN  /\ \A r \in bookings : HasInstant(r) => ~ExpiredAt(r, now)
        /\ \A r \in probe.before :
             (HasInstant(r) /\ ExpiredAt(r, now))
               => \E h \in history : SameBooking(h, r) /\ h.archived_at = now
        /\ \A r \in probe.before :
             (HasInstant(r) /\ ~ExpiredAt(r, now)) => r \in bookings

\* C11: two sweeps in a row at the same instant, with nothing in between,
\* leave the active set and the history, archive stamps included, as one
\* sweep leaves them; neither run raises an error, and the history holds no
\* two records of one id.
C11_SweepIdempotent ==
  probe.phase = "again" =>
    /\ bookings = probe.once.bookings
    /\ history = probe.once.history
    /\ probe.response # HTTP_500
    /\ probe.again # HTTP_500
    /\ \A h \in history : \A g \in history : h.id = g.id => h = g

IdsOf(tbl) == {r.id : r \in tbl}

\* C12: in every state reached by any interleaving of the requests, two
\* sweeps at once included, no id is both active and in history and history
\* holds one record per id at most; and an archived booking never comes back:
\* every id is below the serial, the serial never decreases, and a row
\* enters the active set only under the serial's next value.
C12_MovedOnce ==
  /\ [](/\ IdsOf(bookings) \cap IdsOf(history) = {}
        /\ \A h \in history : \A g \in history : h.id = g.id => h = g
        /\ \A i \in IdsOf(bookings) \cup IdsOf(history) : i < next_id)
  /\ [][/\ next_id' >= next_id
        /\ \A r \in bookings' : r.id \in IdsOf(bookings) \/ r.id = next_id]_vars

\* C12 witness: a sweep is about to write rows it read as expired while
\* another sweep has archived one of them already.
C12_SecondSweepFindsArchived ==
  \E p \in Procs :
    /\ req[p].op = "sweep"
    /\ ~SweepRaises(req[p].rows)
    /\ \E r \in Expired(req[p].rows, req[p].now) : r.id \in IdsOf(history)

\* C13: an admin_edit of an active booking b with a valid grid candidate
\* whose interval overlaps no other active booking of the target room and
\* date is accepted, also when the interval overlaps b's own previous one or
\* repeats it; one whose interval overlaps another active booking of the
\* target room and date is rejected and changes nothing.
C13_EditIgnoresItself ==
  (/\ Answered("admin_edit")
   /\ RowFound(probe.before, probe.request.id)
   /\ ValidCandidate(probe.request.form)
   /\ ~PeopleRaises(probe.request.form))
  => IF \E r \in Existing : MinutesOverlap(probe.request.form, r)
     THEN probe.response = FLASH_ADMIN_OVERLAP /\ bookings = probe.before
     ELSE probe.response = FLASH_UPDATED

\* C14: book, admin_add and admin_edit sweep before they read the active
\* set: when one of them has run at instant now, on a table the sweep can
\* parse, no booking that was active before it and is active after it has an
\* end instant before now.
C14_SweepBeforeRead ==
  [][(/\ \/ book(TraceForms) \/ admin_add(TraceForms) \/ admin_edit(TraceForms)
      /\ ~SweepRaises(bookings))
     => \A r \in bookings \cap bookings' : ~ExpiredAt(r, NowAt(clock))]_vars

\* C15: a history record never changes: in every step each record of the
\* history is still there with all its fields and its archive stamp, or no
\* record of its id is left and the step is an admin_delete_history.
C15_HistoryImmutable ==
  [][\A h \in history :
       \/ h \in history'
       \/ /\ \A g \in history' : g.id # h.id
          /\ \E p \in Procs : admin_delete_history_statement(p)]_vars

\* C15 witness: a sweep is about to write a row whose id has a history
\* record stamped at an earlier instant.
C15_StaleSweepMeetsRecord ==
  \E p \in Procs :
    /\ req[p].op = "sweep"
    /\ ~SweepRaises(req[p].rows)
    /\ \E r \in Expired(req[p].rows, req[p].now) :
         \E h \in history :
           h.id = r.id /\ DtLt(h.archived_at, NowAt(clock))

\* C17: no two rooms share a name; adding a room under a name that exists,
\* or renaming a room to a name another room holds, leaves the rooms as they
\* were.
C17_RoomNamesUnique ==
  /\ [](\A r \in rooms : \A q \in rooms : r.name = q.name => r = q)
  /\ [][/\ \A raw \in RoomNameInputs :
             (AdminAddRoom(raw) /\ \E r \in rooms : r.name = RoomName(raw))
               => rooms' = rooms
        /\ \A room_id \in RoomIds : \A raw \in RoomNameInputs :
             (/\ AdminEditRoom(room_id, raw)
              /\ \E r \in rooms : r.name = RoomName(raw) /\ r.id # room_id)
               => rooms' = rooms]_vars

\* C17 witness: a room has been added after a refused insert used up a
\* value of the serial, and a seeded room has been renamed.
C17_RoomsChanged ==
  /\ \E r \in rooms : r.id = 5 /\ r.name = ROOM_D
  /\ \E r \in rooms : r.id \in 1..3 /\ r \notin SeedRooms

\* C16: api_available_times without room or date answers the client error
\* (status 400, ok false, no starts and no ends) whatever the table holds and
\* writes nothing; with room and date but no selected start its answer holds
\* the free start slots and an empty list of ends.
C16_AbsentParameters ==
  Answered("api") =>
    LET rq == probe.request
        missing(v) == v = NONE \/ v = <<>>
    IN  /\ (missing(rq.room) \/ missing(rq.date))
             => /\ probe.response
                     = [status |-> 400, ok |-> FALSE, error |-> API_ERROR]
                /\ bookings = probe.before /\ history = {}
        /\ (/\ ~missing(rq.room) /\ ~missing(rq.date) /\ missing(rq.start)
            /\ probe.response.status = 200)
             => /\ probe.response.ok
                /\ probe.response.ends = <<>>
                /\ SeqToSet(probe.response.starts)
                     = {min2t(9 * 60 + 30 * k) :
                          k \in {j \in 0..15 :
                                   FreeInterval(9 * 60 + 30 * j,
                                                9 * 60 + 30 * j + 30)}}

\* C16 witness: the API has answered a request with room and date and no
\* selected start on a day that has a booking, with starts and no ends.
C16_NoStartSelected ==
  /\ ApiAnswered
  /\ probe.request.start = NONE
  /\ BookedBefore # {}
  /\ probe.response.starts # <<>>
  /\ probe.response.ends = <<>>

\* The form that books the room and date of the observed API request from
\* start to end.
ApiCandidate(start, end) ==
  [user_name |-> ANN, room |-> probe.request.room, date |-> probe.request.date,
   start_time |-> start, end_time |-> end, people |-> <<>>]

\* C18: what the availability API offers, book accepts: against the same
\* active set, book's validation passes the selected start with every
\* returned end, and every returned start with the slot's end, start + 30.
C18_ApiAgreesWithBook ==
  ApiAnswered =>
    /\ \A i \in 1..Len(probe.response.ends) :
         BookValidate(ApiCandidate(probe.request.start,
                                   probe.response.ends[i]),
                      probe.before) = PASS
    /\ \A i \in 1..Len(probe.response.starts) :
         LET s == probe.response.starts[i]
         IN  BookValidate(ApiCandidate(s, min2t(t2min(s) + 30)),
                          probe.before) = PASS

\* C19: on times of the zero-padded grid the string test end <= start and
\* the string conflict test of the handlers give what the comparison of the
\* minutes and overlaps() on the minutes give.
C19_StringsAgreeWithMinutes ==
  Answered("compare") =>
    LET s == t2min(probe.request.start_time)
        e == t2min(probe.request.end_time)
        b0 == t2min(probe.request.row.start_time)
        b1 == t2min(probe.request.row.end_time)
    IN  /\ probe.response.end_first <=> (e <= s)
        /\ probe.response.conflict <=> overlaps(s, e, b0, b1)

\* C19 witness: the tests have been applied to the interval 09:30-11:00 and
\* the booking 10:00-17:00, which it overlaps.
C19_AcrossTen ==
  /\ Answered("compare")
  /\ probe.request.start_time = T0930
  /\ t2min(probe.request.end_time) = 11 * 60
  /\ t2min(probe.request.row.start_time) = 10 * 60
  /\ probe.request.row.end_time = DAY_END
  /\ probe.response.conflict

\* What admin_edit answers after its UPDATE statement.
AdminEditUpdateResponse(f) ==
  IF UpdateRaises(f) THEN HTTP_500 ELSE FLASH_UPDATED

\* C20: an admin_edit whose booking is gone when its UPDATE runs, removed by
\* a sweep or an admin_delete after the lookup found it, changes nothing and
\* answers that the booking was not found, not that it was updated.
C20_VanishedEditNotFound ==
  [][\A p \in Procs :
       (admin_edit_update(p) /\ ~RowFound(bookings, req[p].id))
         => /\ UNCHANGED stores
            /\ AdminEditUpdateResponse(req[p].form) = FLASH_NOT_FOUND]_vars

\* C21: whenever archive_past_bookings deletes a booking from the active
\* set, the history holds at its commit a record with that booking's id,
\* user, room, date, start and end, also when history records were inserted
\* with explicit ids while bookings draw their ids from the serial.
C21_SweepLosesNothing ==
  [][archive_past_bookings =>
       \A b \in bookings \ bookings' :
         \E h \in history' : SameBooking(h, b)]_vars

\* The session of browser c carries the is_admin flag.
Flagged(c) == <<"is_admin", TRUE>> \in session[c]

\* The login form posted the configured name and password, blanks around
\* them aside.
ConfiguredCredentials(username, password) ==
  /\ username \in {ADMIN_USER, <<" ">> \o ADMIN_USER}
  /\ password \in {ADMIN_PASS, ADMIN_PASS \o <<" ">>}

\* C22: in every sequence of logins, logouts and requests, a session gets
\* the is_admin flag only by a login with the configured credentials and
\* keeps it until its logout; an admin_add, admin_edit, admin_delete,
\* admin_delete_history, admin_add_room, admin_edit_room or
\* admin_delete_room of a session without the flag changes no store, so
\* rooms change and history records go only while some session has the
\* flag; and api_admin_alerts answers a session without the flag with ok
\* false and no alerts.
C22_AdminOnlyInSession ==
  [][/\ \A c \in Clients :
          (~Flagged(c) /\ Flagged(c)')
            => \E username \in CredInputs, password \in CredInputs :
                 /\ ConfiguredCredentials(username, password)
                 /\ AdminLogin(c, username, password)
                 /\ UNCHANGED <<stores, room_stores>>
     /\ \A c \in Clients :
          (Flagged(c) /\ ~Flagged(c)') => auth_admin_logout(c)
     /\ \A c \in Clients :
          (~Flagged(c) /\ <<stores, room_stores>>' # <<stores, room_stores>>)
            => ~AdminWrite(c)
     /\ (room_stores' # room_stores \/ ~(history \subseteq history'))
          => \E c \in Clients : Flagged(c)
     /\ \A c \in Clients :
          (~Flagged(c) /\ auth_api_admin_alerts(c))
            => probe'.response = [ok |-> FALSE, alerts |-> <<>>]]_vars

\* C22 witness: a session that logged in has changed the rooms and has
\* emptied the active set and the history of the bookings made, every
\* session has logged out since, and api_admin_alerts has then refused one.
C22_LoggedOutAfterWrites ==
  /\ \A c \in Clients : ~Flagged(c)
  /\ rooms # SeedRooms
  /\ history = {} /\ bookings = {} /\ next_id > 1
  /\ probe.op = "alerts" /\ ~probe.response.ok
====
